---------------------------- MODULE Spec2Model ----------------------------
(***************************************************************************)
(* Financial sources finder: the scrape / validate / tune feedback loop of *)
(* main.py (FinancialSourcesFinder.find_financial_source), the modules it  *)
(* calls (WebScraperModule, ResultValidator, PromptTuner), the batch       *)
(* driver of main.py, the search loop and the heuristic scraper of         *)
(* codice_scraping.py, get_page under its retry decorator and the finder   *)
(* of financial_source_finder.py.                                          *)
(***************************************************************************)
EXTENDS Integers, Sequences, FiniteSets, TLC

(***************************************************************************)
(* Bounds of the model.                                                    *)
(***************************************************************************)
\* largest --max-tuning value tried (the smallest is -1)
MaxTuning == 2
\* longest Gemini validation answer, in tokens
MaxTextLen == 3
\* longest input list of main()
MaxCompanies == 3
\* largest --batch-size tried
MaxBatchSize == 2
\* largest --threads tried
MaxThreads == 2
\* largest --iterations value tried for codice_scraping.py
MaxIterations == 3
\* most report links on the page searched
MaxLinks == 2

VARIABLES
    \* ---- FinancialSourcesFinder (main.py) ----
    company_name,            \* argument of find_financial_source
    max_tuning_iterations,   \* self.max_tuning_iterations
    validation_threshold,    \* self.validation_threshold
    pc,                      \* position inside find_financial_source
    iteration,               \* local counter of the tuning loop
    scraping_result,         \* local dict built from the last scrape
    validation_result,       \* local dict returned by the last validation
    final_result,            \* the returned dict (NoResult until returned)
    calls,                   \* the calls issued so far, in order
    scrape_inputs,           \* what the last scrape call was given
    validate_inputs,         \* the scraping result the last validate call was given
    \* ---- PromptTuner (model/prompt_tuner.py) ----
    current_prompt,          \* self.current_prompt
    tuning_history,          \* self.tuning_history
    improve_return,          \* value returned by the last improve_prompt
    llm_outcome,             \* how the last improvement LLM call ended
    \* ---- ResultValidator.validate_result taken alone ----
    v_pc, v_response, v_result,
    \* ---- main() and process_companies_batch (main.py) ----
    companies,               \* df["NAME"].tolist()
    batch_size,              \* args.batch_size
    max_workers,             \* args.threads
    batches,                 \* the slices of companies
    main_pc,                 \* position of the main thread
    submitted,               \* batches handed to executor.submit so far
    next_task,               \* head of the executor's work queue
    worker,                  \* per pool thread: the batch it runs, its loop index, its results
    futures,                 \* per batch: whether its future is done, and its result
    collected,               \* futures whose result() has been taken
    all_results,             \* the list main() extends
    finish_order,            \* the batches in the order their futures completed
    \* ---- FinancialSourceFinder.process_company (scraping/codice_scraping.py) ----
    max_iterations,          \* self.max_iterations
    c_pc,                    \* position inside process_company
    c_iteration,             \* the loop variable `iteration`
    actual_iterations,       \* local counter of started cycles
    c_prompt,                \* local current_prompt: how many optimizations it holds
    optimization_counter,    \* prompt_generator.optimization_counter[company_name]
    c_scraping_results,      \* local scraping_results
    c_final_result,          \* local final_result
    validation_status,       \* local validation_status
    final_feedback,          \* local final_feedback
    validated_pair,          \* the (url, year) the validator last accepted
    search_calls,            \* _call_gemini_search calls made
    output_data,             \* the returned record
    \* ---- WebScraperModule.scrape_financial_sources (both scraper modules) ----
    sc_module,               \* which file's WebScraperModule is called
    sc_company_name,         \* argument company_name
    sc_source_type,          \* argument source_type
    sc_page,                 \* what the network shows during the call
    sc_now,                  \* datetime.now().year
    sc_pc,                   \* position of the call
    sc_return,               \* the returned tuple
    \* ---- WebScraperModule.get_page under @retry (claude_challenge_code.py) ----
    gp_pc,                   \* position of the decorated call
    gp_tries,                \* _tries of the retry loop
    gp_delay,                \* _delay of the retry loop
    gp_attempts,             \* how each session.get so far ended
    gp_return,               \* the value returned to the caller
    \* ---- FinancialSourcesFinder (scraping/financial_source_finder.py) ----
    fsf_company_name,        \* argument of find_financial_source
    fsf_max_tuning_iterations, \* self.max_tuning_iterations
    fsf_validation_threshold,  \* self.validation_threshold
    fsf_pc,                  \* position inside find_financial_source
    fsf_scraping_result,     \* local scraping_result
    fsf_report,              \* content of reports/<company>/report_data.json
    fsf_calls,               \* the calls issued so far, in order
    fsf_return               \* the returned value

finderVars == <<company_name, max_tuning_iterations, validation_threshold, pc,
                iteration, scraping_result, validation_result, final_result,
                calls, scrape_inputs, validate_inputs>>
tunerVars == <<current_prompt, tuning_history, improve_return, llm_outcome>>
validatorVars == <<v_pc, v_response, v_result>>
mainVars == <<companies, batch_size, max_workers, batches, main_pc, submitted, next_task,
              worker, futures, collected, all_results, finish_order>>
codiceVars == <<max_iterations, c_pc, c_iteration, actual_iterations, c_prompt,
                optimization_counter, c_scraping_results, c_final_result,
                validation_status, final_feedback, validated_pair, search_calls,
                output_data>>
scraperVars == <<sc_module, sc_company_name, sc_source_type, sc_page, sc_now, sc_pc,
                 sc_return, gp_pc, gp_tries, gp_delay, gp_attempts, gp_return>>
fsfVars == <<fsf_company_name, fsf_max_tuning_iterations, fsf_validation_threshold, fsf_pc,
             fsf_scraping_result, fsf_report, fsf_calls, fsf_return>>
vars == <<finderVars, tunerVars, validatorVars, mainVars, codiceVars, scraperVars, fsfVars>>

(***************************************************************************)
(* Values.                                                                 *)
(***************************************************************************)
\* A company name as read from the CSV: a string (its words), or the float
\* NaN that pandas yields for an empty cell.
StrName(words) == [str |-> TRUE, words |-> words]
NaNName == [str |-> FALSE, words |-> <<>>]
CompanyNames == {StrName(<<"Acme", "Inc">>), StrName(<<"Acme", "SpA">>), NaNName}

\* --source-type default
DefaultSourceType == "Annual Report"

\* Python's None for url / year / source_description
None == "None"

SecUrl == [host |-> "sec.gov", ext |-> "htm"]
PdfUrl == [host |-> "acme.com", ext |-> "pdf"]
HtmlUrl == [host |-> "acme.com", ext |-> "html"]
NoUrl == [host |-> None, ext |-> None]
\* a source description is a sequence of words; NoDesc is Python's None
NoDesc == <<None>>
Link(u, y) == [url |-> u, year |-> y]

\* What the network shows during one scrape: whether the corporate site and
\* its investor-relations page are found, the report links of the IR page
\* (most recent first) and the EDGAR listing per form type.
ReportLists == {<<>>, <<Link(PdfUrl, "2024")>>, <<Link(HtmlUrl, "2024")>>,
                <<Link(SecUrl, "2023")>>}
SecLists == {<<>>, <<Link(SecUrl, "2024")>>}
Webs == [site : BOOLEAN, ir : BOOLEAN, reports : ReportLists,
         sec10k : SecLists, sec10q : SecLists]

(***************************************************************************)
(* WebScraperModule (scraping/claude_challenge_code.py).                   *)
(***************************************************************************)
us_indicators == {"Inc", "Inc.", "Corp", "Corp.", "LLC", "LLP", "Co.", "USA", "America", "US "}

_could_be_us_company(name) == \E i \in 1..Len(name.words) : name.words[i] \in us_indicators

find_sec_filings(web, form_type) == IF form_type = "10-K" THEN web.sec10k ELSE web.sec10q

ScrapeTuple(u, y, d, c) == [url |-> u, year |-> y, source_description |-> d, confidence |-> c]

SecFallback(name, web) ==
    IF _could_be_us_company(name) /\ find_sec_filings(web, "10-K") # <<>>
    THEN LET best == find_sec_filings(web, "10-K")[1]
         IN  ScrapeTuple(best.url, best.year, <<"SEC Filing">>, "MEDIA")
    ELSE ScrapeTuple(NoUrl, None, NoDesc, "BASSA")

\* The tuple scrape_financial_sources returns for a string company name.
scrape_financial_sources(name, source_type, web) ==
    IF ~web.site THEN SecFallback(name, web)
    ELSE IF ~web.ir THEN SecFallback(name, web)
    ELSE LET form_type == IF source_type \in {"Annual", "Annual Report"} THEN "10-K" ELSE "10-Q"
             reports == IF web.reports = <<>> /\ _could_be_us_company(name)
                        THEN web.reports \o find_sec_filings(web, form_type)
                        ELSE web.reports
         IN  IF reports = <<>> THEN ScrapeTuple(NoUrl, None, NoDesc, "BASSA")
             ELSE LET best == reports[1]
                  IN  IF best.url.host = "sec.gov"
                      THEN ScrapeTuple(best.url, best.year, <<"SEC Filing">>, "ALTA")
                      ELSE IF best.url.ext = "pdf"
                      THEN ScrapeTuple(best.url, best.year, <<source_type, "PDF">>, "ALTA")
                      ELSE ScrapeTuple(best.url, best.year, <<source_type>>, "MEDIA")

\* find_company_website swallows the AttributeError of company_name.lower()
\* and returns None; _could_be_us_company then evaluates `indicator in
\* company_name` on a float, which raises TypeError out of the scrape.
ScrapeRaises(name) == ~name.str

(***************************************************************************)
(* ResultValidator (model/result_validator.py).                            *)
(***************************************************************************)
\* A Gemini answer is a sequence of tokens.  "{", "}", "[", "]" are the JSON
\* brackets, "5" a JSON number, "x" prose that is no JSON, and each pair
\* token stands for the members of a JSON object:
\*   "V"  "is_valid": true,  "validation_score": 90
\*   "L"  "is_valid": true,  "validation_score": 60
\*   "F"  "is_valid": false, "validation_score": 90
\*   "E"  "feedback": "..." only (neither is_valid nor validation_score)
PairTokens == {"V", "L", "F", "E"}
Tokens == {"{", "}", "[", "]", "5", "x"} \cup PairTokens
Texts == UNION {[1..n -> Tokens] : n \in 0..MaxTextLen}

\* What model.generate_content / response.text do in validate_result.
GeminiResponses == {[kind |-> "raise", text |-> <<>>],
                    [kind |-> "none", text |-> <<>>],
                    [kind |-> "text_raises", text |-> <<>>]}
                   \cup {[kind |-> "text", text |-> t] : t \in Texts}

\* A Python value as validate_result sees it.  type is "dict", "list",
\* "num" or "NoneType"; the other fields describe a dict.
PyDict(hv, iv, hs, sc, fb) ==
    [type |-> "dict", has_is_valid |-> hv, is_valid |-> iv,
     has_score |-> hs, validation_score |-> sc, feedback |-> fb, empty |-> FALSE]
EmptyDict == [PyDict(FALSE, FALSE, FALSE, 0, "") EXCEPT !.empty = TRUE]
NonDict(t, truthy) == [PyDict(FALSE, FALSE, FALSE, 0, "") EXCEPT !.type = t, !.empty = ~truthy]
PyNone == NonDict("NoneType", FALSE)

DictOf(p) ==
    CASE p = "V" -> PyDict(TRUE, TRUE, TRUE, 90, "ok")
      [] p = "L" -> PyDict(TRUE, TRUE, TRUE, 60, "weak")
      [] p = "F" -> PyDict(TRUE, FALSE, TRUE, 90, "wrong")
      [] OTHER   -> PyDict(FALSE, FALSE, FALSE, 0, "note")

\* bool(value): None, {} and [] are falsy.
Truthy(v) == ~v.empty

IsObject(s) == /\ Len(s) \in {2, 3}
               /\ s[1] = "{" /\ s[Len(s)] = "}"
               /\ Len(s) = 3 => s[2] \in PairTokens

RECURSIVE IsJson(_)
IsJson(s) == \/ s = <<"5">>
             \/ IsObject(s)
             \/ /\ Len(s) >= 2
                /\ s[1] = "[" /\ s[Len(s)] = "]"
                /\ Len(s) = 2 \/ IsJson(SubSeq(s, 2, Len(s) - 1))

\* json.loads: the value, or "raise" in field type when s is no JSON text.
JsonLoads(s) ==
    IF ~IsJson(s) THEN NonDict("raise", FALSE)
    ELSE IF s = <<"5">> THEN NonDict("num", TRUE)
    ELSE IF s[1] = "[" THEN NonDict("list", Len(s) > 2)
    ELSE IF Len(s) = 2 THEN EmptyDict
    ELSE DictOf(s[2])

\* re.search(r"({[\s\S]*})", text): from the first "{" to the last "}".
HasMatch(text) == \E i, j \in 1..Len(text) : i < j /\ text[i] = "{" /\ text[j] = "}"
MatchStart(text) == CHOOSE i \in 1..Len(text) :
                        text[i] = "{" /\ \A k \in 1..(i - 1) : text[k] # "{"
MatchEnd(text) == CHOOSE j \in 1..Len(text) :
                      text[j] = "}" /\ \A k \in (j + 1)..Len(text) : text[k] # "}"

_extract_json_from_text(text) ==
    LET loaded == IF HasMatch(text)
                  THEN JsonLoads(SubSeq(text, MatchStart(text), MatchEnd(text)))
                  ELSE JsonLoads(text)
    IN  IF loaded.type = "raise" THEN PyNone ELSE loaded

UnparsedDict == PyDict(TRUE, FALSE, TRUE, 0, "Unable to parse the validation response")
NoResponseDict == PyDict(TRUE, FALSE, TRUE, 0, "Errore API Gemini: Nessuna risposta ricevuta")
ExceptionDict == PyDict(TRUE, FALSE, TRUE, 0, "Error during validation")

\* mutant: the logging line no longer touches the parsed value, so a JSON
\* list or number is handed back as it is
validate_result_NoLog(response) ==
    CASE response.kind = "raise" -> ExceptionDict
      [] response.kind = "none" -> NoResponseDict
      [] response.kind = "text_raises" -> ExceptionDict
      [] OTHER ->
           LET extracted == _extract_json_from_text(response.text)
           IN  IF ~Truthy(extracted) THEN UnparsedDict ELSE extracted

\* validate_result: the value handed back to the caller.
validate_result(response) ==
    CASE response.kind = "raise" -> ExceptionDict
      [] response.kind = "none" -> NoResponseDict
      [] response.kind = "text_raises" -> ExceptionDict
      [] OTHER ->
           LET extracted == _extract_json_from_text(response.text)
               parsed == IF ~Truthy(extracted) THEN UnparsedDict ELSE extracted
           IN  \* the logger.info line calls parsed.get inside the try
               IF parsed.type # "dict" THEN ExceptionDict ELSE parsed

\* every value validate_result can hand back
ValidationResults == {validate_result(r) : r \in GeminiResponses}

(***************************************************************************)
(* PromptTuner (model/prompt_tuner.py).                                    *)
(***************************************************************************)
\* A prompt is a sequence of characters; " " is white space.
InitialPrompt == <<"t">>
\* What the improvement call can answer (response.text, before strip()).
LlmTexts == {<<"a">>, <<" ", "b", " ">>, <<" ">>}
ImproveOutcomes == {[kind |-> "raise", text |-> <<>>],
                    [kind |-> "text_raises", text |-> <<>>]}
                   \cup {[kind |-> "text", text |-> t] : t \in LlmTexts}

RECURSIVE LStrip(_)
LStrip(s) == IF s # <<>> /\ Head(s) = " " THEN LStrip(Tail(s)) ELSE s
RECURSIVE RStrip(_)
RStrip(s) == IF s # <<>> /\ s[Len(s)] = " " THEN RStrip(SubSeq(s, 1, Len(s) - 1)) ELSE s
\* str.strip()
Strip(s) == RStrip(LStrip(s))

\* One tuning_history entry (its scraping_result, validation_result and
\* timestamp members, copies of the arguments and the clock, are left out).
HistoryEntry(company, old, new) == [company |-> company, old_prompt |-> old, new_prompt |-> new]

\* mutant: the history entry is appended before response.text is read
improve_prompt_AppendsFirst(prompt, history, company, outcome) ==
    IF outcome.kind = "raise"
    THEN [current_prompt |-> prompt, tuning_history |-> history, ret |-> prompt]
    ELSE LET new_prompt == Strip(outcome.text)
         IN  [current_prompt |-> IF outcome.kind = "text" THEN new_prompt ELSE prompt,
              tuning_history |-> Append(history, HistoryEntry(company, prompt, new_prompt)),
              ret |-> IF outcome.kind = "text" THEN new_prompt ELSE prompt]

\* improve_prompt: the tuner's fields after the call and the value returned.
improve_prompt(prompt, history, company, outcome) ==
    IF outcome.kind = "text"
    THEN LET new_prompt == Strip(outcome.text)
         IN  [current_prompt |-> new_prompt,
              tuning_history |-> Append(history, HistoryEntry(company, prompt, new_prompt)),
              ret |-> new_prompt]
    ELSE [current_prompt |-> prompt, tuning_history |-> history, ret |-> prompt]

(***************************************************************************)
(* FinancialSourcesFinder.find_financial_source (main.py).                 *)
(***************************************************************************)
\* --validation-threshold values tried (the default is 80)
Thresholds == {60, 80}
MaxTuningValues == (-1)..MaxTuning
\* the longest call sequence recorded
CallsCap == 3 * MaxTuning + 5

NoScrape == ScrapeTuple(NoUrl, None, NoDesc, "unset")
NoValidation == PyNone
NoResult == [returned |-> FALSE]

\* dict.get(key, default) on the validation result
GetIsValid(v) == IF v.has_is_valid THEN v.is_valid ELSE FALSE
GetScore(v) == IF v.has_score THEN v.validation_score ELSE 0
GetFeedback(v) == v.feedback

\* mutant: the bound test admits one iteration too many
WhileCondition_OffByOne(v, threshold, iter, max) ==
    (~GetIsValid(v) \/ GetScore(v) < threshold) /\ iter <= max

\* mutant: the loop is no longer bounded by the iteration count
WhileCondition_Unbounded(v, threshold, iter, max) ==
    ~GetIsValid(v) \/ GetScore(v) < threshold

\* mutant: both tests must fail for the tuning to go on
WhileCondition_And(v, threshold, iter, max) ==
    (~GetIsValid(v) /\ GetScore(v) < threshold) /\ iter < max

\* The condition of the while loop (lines 74-77).
WhileCondition(v, threshold, iter, max) ==
    (~GetIsValid(v) \/ GetScore(v) < threshold) /\ iter < max

\* mutant: the dict reports one tuning iteration more than were run
FinalResult_CountsFromOne(company, source_type, scr, v, iter) ==
    [returned |-> TRUE, company_name |-> company, source_type |-> source_type,
     url |-> scr.url, year |-> scr.year,
     source_description |-> scr.source_description, confidence |-> scr.confidence,
     validation_score |-> GetScore(v), is_valid |-> GetIsValid(v),
     tuning_iterations |-> iter + 1, feedback |-> GetFeedback(v)]

\* The dict built at lines 99-110.
FinalResult(company, source_type, scr, v, iter) ==
    [returned |-> TRUE, company_name |-> company, source_type |-> source_type,
     url |-> scr.url, year |-> scr.year,
     source_description |-> scr.source_description, confidence |-> scr.confidence,
     validation_score |-> GetScore(v), is_valid |-> GetIsValid(v),
     tuning_iterations |-> iter, feedback |-> GetFeedback(v)]

\* The arguments handed to scraper.scrape_financial_sources (lines 64, 85):
\* the scraper is built with no reference to the tuner (line 42).
ScrapeArguments(company, source_type) == [company_name |-> company, source_type |-> source_type]

FinderStart ==
    /\ company_name \in CompanyNames
    /\ max_tuning_iterations \in MaxTuningValues
    /\ validation_threshold \in Thresholds
    /\ pc = "scrape0"
    /\ iteration = 0
    /\ scraping_result = NoScrape
    /\ validation_result = NoValidation
    /\ final_result = NoResult
    /\ calls = <<>>
    /\ scrape_inputs = [none |-> TRUE]
    /\ validate_inputs = NoScrape

TunerStart ==
    /\ current_prompt = InitialPrompt
    /\ tuning_history = <<>>
    /\ improve_return = InitialPrompt
    /\ llm_outcome = "none"

ValidatorIdle ==
    /\ v_pc = "idle"
    /\ v_response = [kind |-> "none", text |-> <<>>]
    /\ v_result = PyNone

FinderIdle ==
    /\ company_name = StrName(<<"Acme", "Inc">>)
    /\ max_tuning_iterations = 0
    /\ validation_threshold = 80
    /\ pc = "idle"
    /\ iteration = 0
    /\ scraping_result = NoScrape
    /\ validation_result = NoValidation
    /\ final_result = NoResult
    /\ calls = <<>>
    /\ scrape_inputs = [none |-> TRUE]
    /\ validate_inputs = NoScrape

(***************************************************************************)
(* main() and process_companies_batch (main.py).                           *)
(***************************************************************************)
Min(a, b) == IF a < b THEN a ELSE b

\* line 186: [companies[i : i + size] for i in range(0, len(companies), size)]
MakeBatches(list, size) ==
    [k \in 1..((Len(list) + size - 1) \div size) |->
        SubSeq(list, (k - 1) * size + 1, Min(k * size, Len(list)))]

\* What find_financial_source does for one company of a batch: it raises
\* (out of the first scrape) or returns a final result.
FinderOutcomes(company) ==
    IF ScrapeRaises(company) THEN {[raises |-> TRUE, result |-> NoResult]}
    ELSE {[raises |-> FALSE,
           result |-> FinalResult(company, DefaultSourceType, scr, DictOf(p), 0)] :
              scr \in {ScrapeTuple(NoUrl, None, NoDesc, "BASSA"),
                       ScrapeTuple(PdfUrl, "2024", <<DefaultSourceType, "PDF">>, "ALTA")},
              p \in {"V"}}

\* A row of the results list: a final result, or the error record of lines 136-138.
ResultRow(result) == [error |-> FALSE, company_name |-> result.company_name,
                      source_type |-> result.source_type, url |-> result.url,
                      year |-> result.year, is_valid |-> result.is_valid]
ErrorRow(company, source_type) == [error |-> TRUE, company_name |-> company,
                                   source_type |-> source_type, url |-> NoUrl,
                                   year |-> None, is_valid |-> FALSE]

\* mutant: a company whose search raises leaves no record
BatchStep_DropsOnError(results, company, source_type, outcome) ==
    IF outcome.raises THEN results ELSE Append(results, ResultRow(outcome.result))

\* lines 130-138: the body of the for loop of process_companies_batch
BatchStep(results, company, source_type, outcome) ==
    IF outcome.raises
    THEN Append(results, ErrorRow(company, source_type))
    ELSE Append(results, ResultRow(outcome.result))

Threads == 1..MaxThreads
IdleWorker == [batch |-> 0, i |-> 0, results |-> <<>>]
PendingFuture == [done |-> FALSE, result |-> <<>>]

MainIdle ==
    /\ companies = <<>>
    /\ batch_size = 1
    /\ max_workers = 1
    /\ batches = <<>>
    /\ main_pc = "idle"
    /\ submitted = 0
    /\ next_task = 1
    /\ worker = [w \in Threads |-> IdleWorker]
    /\ futures = <<>>
    /\ collected = 0
    /\ all_results = <<>>
    /\ finish_order = <<>>

\* lines 185-191
MainStart ==
    /\ companies \in UNION {[1..n -> CompanyNames] : n \in 0..MaxCompanies}
    /\ batch_size \in 1..MaxBatchSize
    /\ max_workers \in Threads
    /\ batches = MakeBatches(companies, batch_size)
    /\ main_pc = "submit"
    /\ submitted = 0
    /\ next_task = 1
    /\ worker = [w \in Threads |-> IdleWorker]
    /\ futures = [k \in 1..Len(batches) |-> PendingFuture]
    /\ collected = 0
    /\ all_results = <<>>
    /\ finish_order = <<>>


\* lines 192-194: one executor.submit
Submit ==
    /\ main_pc = "submit"
    /\ submitted < Len(batches)
    /\ submitted' = submitted + 1
    /\ UNCHANGED <<companies, batch_size, max_workers, batches, main_pc, next_task, worker,
                   futures, collected, all_results, finish_order>>
    /\ UNCHANGED <<finderVars, tunerVars, validatorVars, codiceVars, scraperVars, fsfVars>>

\* the for loop of lines 192-194 ends
SubmitDone ==
    /\ main_pc = "submit"
    /\ submitted = Len(batches)
    /\ main_pc' = "collect"
    /\ UNCHANGED <<companies, batch_size, max_workers, batches, submitted, next_task, worker,
                   futures, collected, all_results, finish_order>>
    /\ UNCHANGED <<finderVars, tunerVars, validatorVars, codiceVars, scraperVars, fsfVars>>

\* a pool thread takes the oldest queued batch and enters process_companies_batch
WorkerTake(w) ==
    /\ w <= max_workers
    /\ worker[w].batch = 0
    /\ next_task <= submitted
    /\ worker' = [worker EXCEPT ![w] = [batch |-> next_task, i |-> 1, results |-> <<>>]]
    /\ next_task' = next_task + 1
    /\ UNCHANGED <<companies, batch_size, max_workers, batches, main_pc, submitted, futures,
                   collected, all_results, finish_order>>
    /\ UNCHANGED <<finderVars, tunerVars, validatorVars, codiceVars, scraperVars, fsfVars>>

\* lines 130-138: one company of the batch
ProcessCompany(w) ==
    /\ worker[w].batch # 0
    /\ worker[w].i <= Len(batches[worker[w].batch])
    /\ LET company == batches[worker[w].batch][worker[w].i]
       IN  \E outcome \in FinderOutcomes(company) :
             worker' = [worker EXCEPT ![w].i = @ + 1,
                                      ![w].results = BatchStep(@, company, DefaultSourceType,
                                                               outcome)]
    /\ UNCHANGED <<companies, batch_size, max_workers, batches, main_pc, submitted, next_task,
                   futures, collected, all_results, finish_order>>
    /\ UNCHANGED <<finderVars, tunerVars, validatorVars, codiceVars, scraperVars, fsfVars>>

\* line 139: the batch returns and its future completes
BatchReturn(w) ==
    /\ worker[w].batch # 0
    /\ worker[w].i > Len(batches[worker[w].batch])
    /\ futures' = [futures EXCEPT ![worker[w].batch] = [done |-> TRUE,
                                                        result |-> worker[w].results]]
    /\ finish_order' = Append(finish_order, worker[w].batch)
    /\ worker' = [worker EXCEPT ![w] = IdleWorker]
    /\ UNCHANGED <<companies, batch_size, max_workers, batches, main_pc, submitted, next_task,
                   collected, all_results>>
    /\ UNCHANGED <<finderVars, tunerVars, validatorVars, codiceVars, scraperVars, fsfVars>>

\* mutant: the results are taken in completion order (as_completed)
Collect_AsCompleted ==
    /\ main_pc = "collect"
    /\ collected < Len(finish_order)
    /\ all_results' = all_results \o futures[finish_order[collected + 1]].result
    /\ collected' = collected + 1
    /\ UNCHANGED <<companies, batch_size, max_workers, batches, main_pc, submitted, next_task,
                   worker, futures, finish_order>>
    /\ UNCHANGED <<finderVars, tunerVars, validatorVars, codiceVars, scraperVars, fsfVars>>

\* lines 197-199: future.result() of the next future of the list, then extend
Collect ==
    /\ main_pc = "collect"
    /\ collected < Len(futures)
    /\ futures[collected + 1].done
    /\ all_results' = all_results \o futures[collected + 1].result
    /\ collected' = collected + 1
    /\ UNCHANGED <<companies, batch_size, max_workers, batches, main_pc, submitted, next_task,
                   worker, futures, finish_order>>
    /\ UNCHANGED <<finderVars, tunerVars, validatorVars, codiceVars, scraperVars, fsfVars>>

\* the for loop of lines 197-199 ends and the executor shuts down
CollectDone ==
    /\ main_pc = "collect"
    /\ collected = Len(futures)
    /\ main_pc' = "done"
    /\ UNCHANGED <<companies, batch_size, max_workers, batches, submitted, next_task, worker,
                   futures, collected, all_results, finish_order>>
    /\ UNCHANGED <<finderVars, tunerVars, validatorVars, codiceVars, scraperVars, fsfVars>>

MainNext ==
    \/ Submit
    \/ SubmitDone
    \/ \E w \in Threads : WorkerTake(w)
    \/ \E w \in Threads : ProcessCompany(w)
    \/ \E w \in Threads : BatchReturn(w)
    \/ Collect
    \/ CollectDone


(***************************************************************************)
(* WebScraperModule.scrape_financial_sources called on its own, in         *)
(* scraping/claude_challenge_code.py and in scraping/codice_scraping.py.   *)
(***************************************************************************)
ScraperModules == {"claude_challenge_code", "codice_scraping"}
SourceTypes == {DefaultSourceType, "Quarterly Report", "Sustainability Report"}
ScraperNames == CompanyNames \cup {StrName(<<"Acme", "Inc", "AG">>)}

\* The <a> elements of the page searched for reports that carry a keyword
\* and point to a document, in page order: the target and the year that
\* the year extraction reads in the link (None when it reads none).
LinkYears == {None, "2023", "2024"}
PageLinks == {Link(u, y) : u \in {PdfUrl, HtmlUrl}, y \in LinkYears}
SeqsUpTo(S, n) == UNION {[1..k -> S] : k \in 0..n}
Pages == [site : BOOLEAN, ir : BOOLEAN, links : SeqsUpTo(PageLinks, MaxLinks),
          sec10k : SecLists, sec10q : SecLists]
\* datetime.now().year at the time of the call
Nows == {2023, 2024, 2029}

\* int(year)
YearInt(y) == CASE y = "2023" -> 2023 [] y = "2024" -> 2024

\* results.sort(key=lambda x: x[1], reverse=True): stable, most recent first
RECURSIVE SortByYearDesc(_)
SortByYearDesc(results) ==
    IF results = <<>> THEN <<>>
    ELSE LET x == results[Len(results)]
             front == SortByYearDesc(SubSeq(results, 1, Len(results) - 1))
             before == SelectSeq(front, LAMBDA r : YearInt(r.year) >= YearInt(x.year))
             after == SelectSeq(front, LAMBDA r : YearInt(r.year) < YearInt(x.year))
         IN  before \o <<x>> \o after

\* mutant: links in which no year was read are kept
find_financial_reports_KeepsUndated(links) == links

\* claude_challenge_code.py lines 353-372: the links with a year, most recent first
find_financial_reports(links) ==
    SortByYearDesc(SelectSeq(links, LAMBDA l : l.year # None))

\* what scrape_financial_sources of claude_challenge_code.py sees of a page
ClaudeWeb(page) == [site |-> page.site, ir |-> page.ir,
                    reports |-> find_financial_reports(page.links),
                    sec10k |-> page.sec10k, sec10q |-> page.sec10q]

\* codice_scraping.py lines 420-428: the score of a link
LinkScore(l) == IF l.url.ext = "pdf" THEN 5 ELSE 1

\* max(results[year], key=score): the first link of the best score
BestLinkForYear(links, y) ==
    LET ofYear == SelectSeq(links, LAMBDA l : l.year = y)
        top == CHOOSE i \in 1..Len(ofYear) :
                   /\ \A j \in 1..Len(ofYear) : LinkScore(ofYear[j]) <= LinkScore(ofYear[i])
                   /\ \A j \in 1..(i - 1) : LinkScore(ofYear[j]) < LinkScore(ofYear[i])
    IN  ofYear[top]

\* sorted(years, reverse=True) as a sequence
RECURSIVE YearsDesc(_)
YearsDesc(years) ==
    IF years = {} THEN <<>>
    ELSE LET m == CHOOSE y \in years : \A z \in years : YearInt(z) <= YearInt(y)
         IN  <<m>> \o YearsDesc(years \ {m})

\* codice_scraping.py lines 393-451: one link per relevant year, most recent first
codice_find_financial_reports(links, now) ==
    LET dated == SelectSeq(links, LAMBDA l : l.year # None)
        years == {dated[i].year : i \in 1..Len(dated)}
        relevant_years == YearsDesc({y \in years : YearInt(y) <= now /\ YearInt(y) >= now - 5})
    IN  [i \in 1..Len(relevant_years) |->
            Link(BestLinkForYear(dated, relevant_years[i]).url, relevant_years[i])]

codice_us_indicators == {"Inc", "Inc.", "Corp", "Corp.", "LLC", "LLP", "Co.", "Corporation"}
codice_eu_indicators == {"AG", "PLC", "SE", "N.V.", "S.A.", "S.p.A.", "GmbH", "SAS", "OYJ",
                         "ASA", "A/S", "AB"}

\* codice_scraping.py lines 638-648; an indicator is looked for after a space
codice_could_be_us_company(name) ==
    LET later == {name.words[i] : i \in 2..Len(name.words)}
    IN  IF later \cap codice_eu_indicators # {} THEN FALSE
        ELSE later \cap codice_us_indicators # {}

\* lines 598-602
sec_form_type_of(source_type) ==
    IF source_type \in {"Annual Report", "Consolidated"} THEN "10-K"
    ELSE IF source_type = "Quarterly Report" THEN "10-Q"
    ELSE None

\* codice_scraping.py lines 569-636
codice_scrape_financial_sources(name, source_type, page, now) ==
    LET reports == IF page.site THEN codice_find_financial_reports(page.links, now) ELSE <<>>
        site_result ==
            IF reports # <<>>
            THEN ScrapeTuple(reports[1].url, reports[1].year,
                             <<source_type, "from Company Website",
                               IF page.ir THEN "IR Page" ELSE "Homepage">>,
                             IF reports[1].url.ext = "pdf" THEN "ALTA" ELSE "MEDIA")
            ELSE ScrapeTuple(NoUrl, None, NoDesc, "BASSA")
        sec_form_type == sec_form_type_of(source_type)
        sec_results == IF sec_form_type # None /\ codice_could_be_us_company(name)
                       THEN find_sec_filings(page, sec_form_type)
                       ELSE <<>>
        sec_result == ScrapeTuple(sec_results[1].url, sec_results[1].year,
                                  <<"SEC Filing", sec_form_type>>, "ALTA")
        best == IF sec_results = <<>> THEN site_result
                ELSE IF site_result.url # NoUrl /\ site_result.year # None
                THEN IF \/ YearInt(sec_results[1].year) > YearInt(site_result.year)
                        \/ /\ YearInt(sec_results[1].year) = YearInt(site_result.year)
                           /\ site_result.confidence # "ALTA"
                     THEN sec_result
                     ELSE site_result
                ELSE sec_result
    IN  IF best.url # NoUrl /\ best.year # None THEN best
        ELSE ScrapeTuple(NoUrl, None, NoDesc, "BASSA")

\* line 604: company_name.upper() on the float NaN
CodiceScrapeRaises(name, source_type) == ~name.str /\ sec_form_type_of(source_type) # None

ScrapeIdle ==
    /\ sc_module = "claude_challenge_code"
    /\ sc_company_name = NaNName
    /\ sc_source_type = DefaultSourceType
    /\ sc_page = [site |-> FALSE, ir |-> FALSE, links |-> <<>>, sec10k |-> <<>>, sec10q |-> <<>>]
    /\ sc_now = 2024
    /\ sc_pc = "idle"
    /\ sc_return = ScrapeTuple(NoUrl, None, NoDesc, "BASSA")

\* A call of scrape_financial_sources; the search engine shows no corporate
\* site for a name that is no string.
ScrapeStart ==
    /\ sc_module \in ScraperModules
    /\ sc_company_name \in ScraperNames
    /\ sc_source_type \in SourceTypes
    /\ sc_page \in Pages
    /\ sc_page.site => sc_company_name.str
    /\ sc_now \in Nows
    /\ sc_pc = "call"
    /\ sc_return = ScrapeTuple(NoUrl, None, NoDesc, "BASSA")

(***************************************************************************)
(* WebScraperModule.get_page of claude_challenge_code.py under             *)
(* @retry(tries=5, delay=3, backoff=2, jitter=1).                          *)
(***************************************************************************)
tries == 5
delay == 3
backoff == 2
jitter == 1

\* How one session.get ends: a response with a status code, or an exception.
PageTexts == {"<html>a</html>", "<html>b</html>"}
StatusCodes == {200, 404, 503}
RequestExceptions == {"Timeout", "ConnectionError"}
GetOutcomes == [kind : {"response"}, status_code : StatusCodes, text : PageTexts]
               \cup [kind : {"exception"}, status_code : {0}, text : RequestExceptions]

GetPageIdle ==
    /\ gp_pc = "idle"
    /\ gp_tries = tries
    /\ gp_delay = delay
    /\ gp_attempts = <<>>
    /\ gp_return = None

\* the decorated call starts: _tries, _delay = tries, delay
GetPageStart ==
    /\ gp_pc = "call"
    /\ gp_tries = tries
    /\ gp_delay = delay
    /\ gp_attempts = <<>>
    /\ gp_return = None

ScraperIdle == ScrapeIdle /\ GetPageIdle

(***************************************************************************)
(* FinancialSourcesFinder.find_financial_source of                         *)
(* scraping/financial_source_finder.py.                                    *)
(***************************************************************************)
\* What scraper.scrape_financial_sources (scraping/scraping_challenge.py)
\* gives back: "raise", the four None of a failed search, or four values.
FsfScrapeOutcomes ==
    {[raises |-> TRUE, tuple |-> ScrapeTuple(NoUrl, None, NoDesc, None)],
     [raises |-> FALSE, tuple |-> ScrapeTuple(NoUrl, None, NoDesc, None)],
     [raises |-> FALSE, tuple |-> ScrapeTuple(PdfUrl, "2024", <<DefaultSourceType>>, "ALTA")],
     [raises |-> FALSE, tuple |-> ScrapeTuple(HtmlUrl, "2023", <<DefaultSourceType>>, "MEDIA")]}

FsfNoResult == [returned |-> FALSE]

FsfIdle ==
    /\ fsf_company_name = NaNName
    /\ fsf_max_tuning_iterations = 0
    /\ fsf_validation_threshold = 80
    /\ fsf_pc = "idle"
    /\ fsf_scraping_result = NoScrape
    /\ fsf_report = NoScrape
    /\ fsf_calls = <<>>
    /\ fsf_return = FsfNoResult

\* lines 26-43 and 45-56
FsfStart ==
    /\ fsf_company_name \in CompanyNames
    /\ fsf_max_tuning_iterations \in 0..MaxTuning
    /\ fsf_validation_threshold \in Thresholds
    /\ fsf_pc = "scrape"
    /\ fsf_scraping_result = NoScrape
    /\ fsf_report = NoScrape
    /\ fsf_calls = <<>>
    /\ fsf_return = FsfNoResult

\* scrape_financial_sources of claude_challenge_code.py runs to its end
ClaudeScrape ==
    /\ sc_pc = "call"
    /\ sc_module = "claude_challenge_code"
    /\ IF ScrapeRaises(sc_company_name)
       THEN sc_pc' = "raised" /\ UNCHANGED sc_return
       ELSE /\ sc_return' = scrape_financial_sources(sc_company_name, sc_source_type,
                                                     ClaudeWeb(sc_page))
            /\ sc_pc' = "returned"
    /\ UNCHANGED <<sc_module, sc_company_name, sc_source_type, sc_page, sc_now>>
    /\ UNCHANGED <<gp_pc, gp_tries, gp_delay, gp_attempts, gp_return>>
    /\ UNCHANGED <<finderVars, tunerVars, validatorVars, mainVars, codiceVars, fsfVars>>

\* scrape_financial_sources of codice_scraping.py runs to its end
CodiceScrape ==
    /\ sc_pc = "call"
    /\ sc_module = "codice_scraping"
    /\ IF CodiceScrapeRaises(sc_company_name, sc_source_type)
       THEN sc_pc' = "raised" /\ UNCHANGED sc_return
       ELSE /\ sc_return' = codice_scrape_financial_sources(sc_company_name, sc_source_type,
                                                            sc_page, sc_now)
            /\ sc_pc' = "returned"
    /\ UNCHANGED <<sc_module, sc_company_name, sc_source_type, sc_page, sc_now>>
    /\ UNCHANGED <<gp_pc, gp_tries, gp_delay, gp_attempts, gp_return>>
    /\ UNCHANGED <<finderVars, tunerVars, validatorVars, mainVars, codiceVars, fsfVars>>

ScraperNext == ClaudeScrape \/ CodiceScrape

\* lines 85-96: the body of get_page for one outcome of session.get
GetPageBody(outcome) ==
    IF outcome.kind = "exception" THEN [raises |-> TRUE, value |-> None]
    ELSE IF outcome.status_code = 200 THEN [raises |-> FALSE, value |-> outcome.text]
    ELSE [raises |-> FALSE, value |-> None]

\* one run of get_page inside the retry loop: `return f()`
GetPageAttempt ==
    /\ gp_pc = "call"
    /\ \E outcome \in GetOutcomes :
         /\ gp_attempts' = Append(gp_attempts, outcome)
         /\ IF GetPageBody(outcome).raises
            THEN gp_pc' = "except" /\ UNCHANGED gp_return
            ELSE gp_pc' = "returned" /\ gp_return' = GetPageBody(outcome).value
    /\ UNCHANGED <<gp_tries, gp_delay>>
    /\ UNCHANGED <<sc_module, sc_company_name, sc_source_type, sc_page, sc_now, sc_pc,
                   sc_return>>
    /\ UNCHANGED <<finderVars, tunerVars, validatorVars, mainVars, codiceVars, fsfVars>>

\* the except clause of the retry loop: _tries -= 1; raise when none is
\* left, else sleep and lengthen the delay
RetryExcept ==
    /\ gp_pc = "except"
    /\ gp_tries' = gp_tries - 1
    /\ IF gp_tries - 1 = 0
       THEN gp_pc' = "raised" /\ UNCHANGED gp_delay
       ELSE gp_pc' = "call" /\ gp_delay' = gp_delay * backoff + jitter
    /\ UNCHANGED <<gp_attempts, gp_return>>
    /\ UNCHANGED <<sc_module, sc_company_name, sc_source_type, sc_page, sc_now, sc_pc,
                   sc_return>>
    /\ UNCHANGED <<finderVars, tunerVars, validatorVars, mainVars, codiceVars, fsfVars>>

GetPageNext == GetPageAttempt \/ RetryExcept

\* line 59: the only scrape of the function
FsfScrape ==
    /\ fsf_pc = "scrape"
    /\ fsf_calls' = Append(fsf_calls, "scrape")
    /\ \E outcome \in FsfScrapeOutcomes :
         IF outcome.raises
         THEN fsf_pc' = "raised" /\ UNCHANGED fsf_scraping_result
         ELSE fsf_pc' = "save" /\ fsf_scraping_result' = outcome.tuple
    /\ UNCHANGED <<fsf_company_name, fsf_max_tuning_iterations, fsf_validation_threshold,
                   fsf_report, fsf_return>>
    /\ UNCHANGED <<finderVars, tunerVars, validatorVars, mainVars, codiceVars, scraperVars>>

\* lines 61-70: the report file is written; os.path.join raises for a
\* company name that is no string
FsfSaveReport ==
    /\ fsf_pc = "save"
    /\ IF fsf_company_name.str
       THEN fsf_report' = fsf_scraping_result /\ fsf_pc' = "return"
       ELSE fsf_pc' = "raised" /\ UNCHANGED fsf_report
    /\ UNCHANGED <<fsf_company_name, fsf_max_tuning_iterations, fsf_validation_threshold,
                   fsf_scraping_result, fsf_calls, fsf_return>>
    /\ UNCHANGED <<finderVars, tunerVars, validatorVars, mainVars, codiceVars, scraperVars>>

\* line 118: return scraping_result
FsfReturn ==
    /\ fsf_pc = "return"
    /\ fsf_return' = [returned |-> TRUE, value |-> fsf_scraping_result]
    /\ fsf_pc' = "returned"
    /\ UNCHANGED <<fsf_company_name, fsf_max_tuning_iterations, fsf_validation_threshold,
                   fsf_scraping_result, fsf_report, fsf_calls>>
    /\ UNCHANGED <<finderVars, tunerVars, validatorVars, mainVars, codiceVars, scraperVars>>

FsfNext == FsfScrape \/ FsfSaveReport \/ FsfReturn


(***************************************************************************)
(* FinancialSourceFinder.process_company (scraping/codice_scraping.py).    *)
(***************************************************************************)
\* How one Gemini search ends: _call_gemini_search raises after its retries,
\* answers "", or answers a text that _parse_search_response turns into None
\* or into a dict with url (None or a string) and year (None or a string).
SearchUrls == {None, "", "https://acme.com/ar2024.pdf", "https://acme.com/ir"}
SearchYears == {None, "2024", "24"}
SearchOutcomes == {[kind |-> "raise", url |-> None, year |-> None],
                   [kind |-> "empty", url |-> None, year |-> None],
                   [kind |-> "unparsable", url |-> None, year |-> None]}
                  \cup {[kind |-> "dict", url |-> u, year |-> y] :
                            u \in SearchUrls, y \in SearchYears}

\* A search result dict, or Python's None.
SearchResult(u, y, c, t) == [none |-> FALSE, url |-> u, year |-> y, confidence |-> c,
                             source_type_found |-> t]
NoSearchResult == [none |-> TRUE, url |-> None, year |-> None, confidence |-> None,
                   source_type_found |-> None]

\* lines 1589-1593: the value of gemini_result after a search that returned
gemini_result_of(outcome) ==
    IF outcome.kind = "dict"
    THEN SearchResult(outcome.url, outcome.year, "ALTA", DefaultSourceType)
    ELSE NoSearchResult

\* What the validator meets: whether the HEAD request on the url succeeds
\* and how the Gemini judge answers.
JudgeAnswers == {"raise", "unparsable", "true", "false"}
ValidatorEnvs == [accessible : BOOLEAN, judge : JudgeAnswers]

\* the year passes int(year_found) and has four characters
YearFormatOk(y) == y = "2024"

\* mutant: the validator without its preliminary checks of url and year
codice_validate_result_NoInputCheck(url_found, year_found, env) ==
    IF ~env.accessible THEN "false"
    ELSE IF env.judge = "unparsable" THEN "false"
    ELSE env.judge

\* Validator.validate_result: "raise", or the value of its "validated" member.
codice_validate_result(url_found, year_found, env) ==
    IF url_found \in {None, ""} \/ year_found \in {None, ""} THEN "false"
    ELSE IF ~YearFormatOk(year_found) THEN "false"
    ELSE IF ~env.accessible THEN "false"
    ELSE IF env.judge = "unparsable" THEN "false"
    ELSE env.judge

\* max_optimizations of optimize_prompt
max_optimizations == 2

\* How the optimization request ends: a usable prompt, an unusable text, an API error.
OptimizeOutcomes == {"prompt", "invalid", "raise"}

\* optimize_prompt: the counter after the call and the prompt returned.
optimize_prompt(counter, prompt, outcome) ==
    [counter |-> counter + 1,
     prompt |-> IF counter + 1 > max_optimizations THEN prompt
                ELSE IF outcome = "prompt" THEN prompt + 1
                ELSE prompt]

\* mutant: the loop admits one cycle more than max_iterations
LoopContinues_OffByOne(iter, max) == iter <= max

\* line 1581: for iteration in range(self.max_iterations)
LoopContinues(iter, max) == iter < max

\* lines 1615 and 1647: another cycle is left after this one
HasNextIteration(iter, max) == iter < max - 1

NoOutput == [returned |-> FALSE]

\* the preliminary scraping result: None when the scrape raised, else the tuple
CodiceScrapeResults == {[none |-> TRUE, tuple |-> ScrapeTuple(NoUrl, None, NoDesc, "BASSA")],
                        [none |-> FALSE, tuple |-> ScrapeTuple(NoUrl, None, NoDesc, "BASSA")],
                        [none |-> FALSE,
                         tuple |-> ScrapeTuple(PdfUrl, "2024", <<DefaultSourceType, "PDF">>, "ALTA")]}

CodiceIdle ==
    /\ max_iterations = 0
    /\ c_pc = "idle"
    /\ c_iteration = 0
    /\ actual_iterations = 0
    /\ c_prompt = 0
    /\ optimization_counter = 0
    /\ c_scraping_results = [none |-> TRUE, tuple |-> ScrapeTuple(NoUrl, None, NoDesc, "BASSA")]
    /\ c_final_result = NoSearchResult
    /\ validation_status = "Not Processed"
    /\ final_feedback = "none"
    /\ validated_pair = <<None, None>>
    /\ search_calls = 0
    /\ output_data = NoOutput

\* lines 1560-1572
CodiceStart ==
    /\ max_iterations \in 0..MaxIterations
    /\ c_pc = "start"
    /\ c_iteration = 0
    /\ actual_iterations = 0
    /\ c_prompt = 0
    /\ optimization_counter = 0
    /\ c_scraping_results = [none |-> TRUE, tuple |-> ScrapeTuple(NoUrl, None, NoDesc, "BASSA")]
    /\ c_final_result = NoSearchResult
    /\ validation_status = "Not Processed"
    /\ final_feedback = "none"
    /\ validated_pair = <<None, None>>
    /\ search_calls = 0
    /\ output_data = NoOutput

CodiceInit == FinderIdle /\ TunerStart /\ ValidatorIdle /\ MainIdle /\ CodiceStart
    /\ ScraperIdle /\ FsfIdle

\* lines 1573-1578: the preliminary scraping, done once
PreliminaryScrape ==
    /\ c_pc = "start"
    /\ c_scraping_results' \in CodiceScrapeResults
    /\ c_pc' = "loop"
    /\ UNCHANGED <<max_iterations, c_iteration, actual_iterations, c_prompt,
                   optimization_counter, c_final_result, validation_status, final_feedback,
                   validated_pair, search_calls, output_data>>
    /\ UNCHANGED <<finderVars, tunerVars, validatorVars, mainVars, scraperVars, fsfVars>>

\* lines 1581-1584: the head of the for loop
LoopHead ==
    /\ c_pc = "loop"
    /\ IF LoopContinues(c_iteration, max_iterations)
       THEN /\ actual_iterations' = actual_iterations + 1
            /\ validation_status' = "Attempted"
            /\ c_pc' = "search"
       ELSE /\ c_pc' = "finish"
            /\ UNCHANGED <<actual_iterations, validation_status>>
    /\ UNCHANGED <<max_iterations, c_iteration, c_prompt, optimization_counter,
                   c_scraping_results, c_final_result, final_feedback, validated_pair,
                   search_calls, output_data>>
    /\ UNCHANGED <<finderVars, tunerVars, validatorVars, mainVars, scraperVars, fsfVars>>

\* lines 1587-1628: the Gemini search of one cycle and what follows it up
\* to the validation
Search ==
    /\ c_pc = "search"
    /\ search_calls' = search_calls + 1
    /\ \E outcome \in SearchOutcomes, opt \in OptimizeOutcomes :
         LET gemini_result == gemini_result_of(outcome)
             optimized == optimize_prompt(optimization_counter, c_prompt, opt)
         IN  IF outcome.kind = "raise"
             THEN \* lines 1595-1604
                  /\ final_feedback' = "Errore API Gemini Search"
                  /\ validation_status' = "Failed (API Error)"
                  /\ c_final_result' = IF c_final_result.none
                                       THEN SearchResult(None, None, "BASSA", "Error")
                                       ELSE c_final_result
                  /\ c_pc' = "finish"
                  /\ UNCHANGED <<c_iteration, c_prompt, optimization_counter>>
             ELSE IF gemini_result.none \/ gemini_result.url = None
             THEN \* lines 1608-1622
                  /\ final_feedback' = "Ricerca Gemini non ha prodotto un URL valido"
                  /\ c_final_result' = IF c_final_result.none
                                       THEN SearchResult(None, None, "BASSA", "Not Found")
                                       ELSE c_final_result
                  /\ IF HasNextIteration(c_iteration, max_iterations)
                     THEN /\ c_prompt' = optimized.prompt
                          /\ optimization_counter' = optimized.counter
                          /\ c_iteration' = c_iteration + 1
                          /\ c_pc' = "loop"
                          /\ UNCHANGED validation_status
                     ELSE /\ validation_status' = "Failed (No Result Found)"
                          /\ c_pc' = "finish"
                          /\ UNCHANGED <<c_iteration, c_prompt, optimization_counter>>
             ELSE \* lines 1626-1628
                  /\ c_final_result' = gemini_result
                  /\ c_pc' = "validate"
                  /\ UNCHANGED <<c_iteration, c_prompt, optimization_counter,
                                 validation_status, final_feedback>>
    /\ UNCHANGED <<max_iterations, actual_iterations, c_scraping_results, validated_pair,
                   output_data>>
    /\ UNCHANGED <<finderVars, tunerVars, validatorVars, mainVars, scraperVars, fsfVars>>

\* lines 1631-1662: the validation of the result just found
CodiceValidate ==
    /\ c_pc = "validate"
    /\ \E env \in ValidatorEnvs, opt \in OptimizeOutcomes :
         LET validated == codice_validate_result(c_final_result.url, c_final_result.year, env)
             optimized == optimize_prompt(optimization_counter, c_prompt, opt)
         IN  IF validated = "raise"
             THEN \* lines 1656-1662
                  /\ final_feedback' = "Errore API/Sistema Validatore"
                  /\ validation_status' = "Failed (Validation Error)"
                  /\ c_pc' = "finish"
                  /\ UNCHANGED <<c_iteration, c_prompt, optimization_counter, validated_pair>>
             ELSE IF validated = "true"
             THEN \* lines 1638-1641
                  /\ final_feedback' = "validator feedback"
                  /\ validation_status' = "Validated"
                  /\ validated_pair' = <<c_final_result.url, c_final_result.year>>
                  /\ c_pc' = "finish"
                  /\ UNCHANGED <<c_iteration, c_prompt, optimization_counter>>
             ELSE \* lines 1643-1654
                  /\ final_feedback' = "validator feedback"
                  /\ validation_status' = "Failed (Validation)"
                  /\ UNCHANGED validated_pair
                  /\ IF HasNextIteration(c_iteration, max_iterations)
                     THEN /\ c_prompt' = optimized.prompt
                          /\ optimization_counter' = optimized.counter
                          /\ c_iteration' = c_iteration + 1
                          /\ c_pc' = "loop"
                     ELSE /\ c_pc' = "finish"
                          /\ UNCHANGED <<c_iteration, c_prompt, optimization_counter>>
    /\ UNCHANGED <<max_iterations, actual_iterations, c_scraping_results, c_final_result,
                   search_calls, output_data>>
    /\ UNCHANGED <<finderVars, tunerVars, validatorVars, mainVars, scraperVars, fsfVars>>

\* lines 1670-1684: the output record
OutputData ==
    [returned |-> TRUE,
     FinalURL |-> IF c_final_result.none THEN None ELSE c_final_result.url,
     FinalYear |-> IF c_final_result.none THEN None ELSE c_final_result.year,
     FinalConfidence |-> IF c_final_result.none THEN "N/A" ELSE c_final_result.confidence,
     FinalSourceTypeFound |-> IF c_final_result.none THEN "N/A"
                              ELSE c_final_result.source_type_found,
     ValidationStatus |-> validation_status,
     ValidationFeedback |-> final_feedback,
     ScrapingURL |-> IF c_scraping_results.none THEN NoUrl ELSE c_scraping_results.tuple.url,
     ScrapingYear |-> IF c_scraping_results.none THEN None ELSE c_scraping_results.tuple.year,
     ScrapingConfidence |-> IF c_scraping_results.none THEN None
                            ELSE c_scraping_results.tuple.confidence,
     Iterations |-> actual_iterations]

\* lines 1666-1684
Finish ==
    /\ c_pc = "finish"
    /\ output_data' = OutputData
    /\ c_pc' = "returned"
    /\ UNCHANGED <<max_iterations, c_iteration, actual_iterations, c_prompt,
                   optimization_counter, c_scraping_results, c_final_result,
                   validation_status, final_feedback, validated_pair, search_calls>>
    /\ UNCHANGED <<finderVars, tunerVars, validatorVars, mainVars, scraperVars, fsfVars>>

CodiceNext == PreliminaryScrape \/ LoopHead \/ Search \/ CodiceValidate \/ Finish

CodiceSpec == CodiceInit /\ [][CodiceNext]_vars

MainInit == FinderIdle /\ TunerStart /\ ValidatorIdle /\ MainStart /\ CodiceIdle
    /\ ScraperIdle /\ FsfIdle

MainSpec == MainInit /\ [][MainNext]_vars

Init == FinderStart /\ TunerStart /\ ValidatorIdle /\ MainIdle /\ CodiceIdle
    /\ ScraperIdle /\ FsfIdle

\* One call of scraper.scrape_financial_sources and the dict built from it.
DoScrape(at) ==
    /\ pc = at
    /\ Len(calls) < CallsCap
    /\ calls' = Append(calls, "scrape")
    /\ scrape_inputs' = ScrapeArguments(company_name, DefaultSourceType)
    /\ IF ScrapeRaises(company_name)
       THEN /\ pc' = "raised"
            /\ UNCHANGED scraping_result
       ELSE /\ pc' = "validate"
            /\ \E web \in Webs :
                 scraping_result' = scrape_financial_sources(company_name, DefaultSourceType, web)
    /\ UNCHANGED <<company_name, max_tuning_iterations, validation_threshold, iteration,
                   validation_result, final_result, validate_inputs, tunerVars,
                   validatorVars, mainVars, codiceVars, scraperVars, fsfVars>>

\* mutant: the rescrape is not validated again
Rescrape_NoRevalidate ==
    /\ pc = "scrape"
    /\ Len(calls) < CallsCap
    /\ calls' = Append(calls, "scrape")
    /\ scrape_inputs' = ScrapeArguments(company_name, DefaultSourceType)
    /\ IF ScrapeRaises(company_name)
       THEN /\ pc' = "raised"
            /\ UNCHANGED scraping_result
       ELSE /\ pc' = "check"
            /\ \E web \in Webs :
                 scraping_result' = scrape_financial_sources(company_name, DefaultSourceType, web)
    /\ UNCHANGED <<company_name, max_tuning_iterations, validation_threshold, iteration,
                   validation_result, final_result, validate_inputs, tunerVars,
                   validatorVars, mainVars, codiceVars, scraperVars, fsfVars>>

\* line 64-67
ScrapeInitial == DoScrape("scrape0")

\* lines 85-93
Rescrape == DoScrape("scrape")

\* lines 70 and 96
Validate ==
    /\ pc = "validate"
    /\ Len(calls) < CallsCap
    /\ calls' = Append(calls, "validate")
    /\ \E v \in ValidationResults : validation_result' = v
    /\ validate_inputs' = scraping_result
    /\ pc' = "check"
    /\ UNCHANGED <<company_name, max_tuning_iterations, validation_threshold, iteration,
                   scraping_result, final_result, scrape_inputs, tunerVars, validatorVars,
                   mainVars, codiceVars, scraperVars, fsfVars>>

\* lines 74-78 and 98-113: the loop test, then either the increment or the
\* return of the final result.  A validation result that is no dict makes
\* .get raise.
CheckLoop ==
    /\ pc = "check"
    /\ IF validation_result.type # "dict"
       THEN pc' = "raised" /\ UNCHANGED <<iteration, final_result>>
       ELSE IF WhileCondition(validation_result, validation_threshold, iteration,
                              max_tuning_iterations)
       THEN /\ iteration' = iteration + 1
            /\ pc' = "improve"
            /\ UNCHANGED final_result
       ELSE /\ final_result' = FinalResult(company_name, DefaultSourceType, scraping_result,
                                           validation_result, iteration)
            /\ pc' = "done"
            /\ UNCHANGED iteration
    /\ UNCHANGED <<company_name, max_tuning_iterations, validation_threshold, scraping_result,
                   validation_result, calls, scrape_inputs, validate_inputs, tunerVars,
                   validatorVars, mainVars, codiceVars, scraperVars, fsfVars>>

\* line 82, followed by the statement at `then`
ImprovePromptThen(then) ==
    /\ pc = "improve"
    /\ Len(calls) < CallsCap
    /\ calls' = Append(calls, "improve")
    /\ \E outcome \in ImproveOutcomes :
         LET after == improve_prompt(current_prompt, tuning_history, company_name, outcome)
         IN  /\ current_prompt' = after.current_prompt
             /\ tuning_history' = after.tuning_history
             /\ improve_return' = after.ret
             /\ llm_outcome' = outcome.kind
    /\ pc' = then
    /\ UNCHANGED <<company_name, max_tuning_iterations, validation_threshold, iteration,
                   scraping_result, validation_result, final_result, scrape_inputs,
                   validate_inputs,
                   validatorVars, mainVars, codiceVars, scraperVars, fsfVars>>

\* mutant: the rescrape after the prompt improvement is skipped
ImprovePrompt_NoRescrape == ImprovePromptThen("validate")

\* lines 82-85: improve the prompt, then retry the scraping
ImprovePrompt == ImprovePromptThen("scrape")

Next == ScrapeInitial \/ Validate \/ CheckLoop \/ ImprovePrompt \/ Rescrape

Spec == Init /\ [][Next]_vars

\* Every call returns and the interpreter keeps running the function.
FairSpec == Spec /\ WF_vars(Next)

(***************************************************************************)
(* ResultValidator.validate_result called on its own.                      *)
(***************************************************************************)
ValidatorInit == FinderIdle /\ TunerStart /\ ValidatorIdle /\ MainIdle /\ CodiceIdle
    /\ ScraperIdle /\ FsfIdle

ValidatorCall ==
    /\ v_pc = "idle"
    /\ \E r \in GeminiResponses :
         /\ v_response' = r
         /\ v_result' = validate_result(r)
    /\ v_pc' = "returned"
    /\ UNCHANGED <<finderVars, tunerVars, mainVars, codiceVars, scraperVars, fsfVars>>

ValidatorNextCall ==
    /\ v_pc = "returned"
    /\ v_pc' = "idle"
    /\ v_response' = [kind |-> "none", text |-> <<>>]
    /\ v_result' = PyNone
    /\ UNCHANGED <<finderVars, tunerVars, mainVars, codiceVars, scraperVars, fsfVars>>

ValidatorNext == ValidatorCall \/ ValidatorNextCall

ValidatorSpec == ValidatorInit /\ [][ValidatorNext]_vars

(***************************************************************************)
(* The scrapers, get_page and financial_source_finder.py taken alone.      *)
(***************************************************************************)
ScraperInit == FinderIdle /\ TunerStart /\ ValidatorIdle /\ MainIdle /\ CodiceIdle
    /\ ScrapeStart /\ GetPageIdle /\ FsfIdle

ScraperSpec == ScraperInit /\ [][ScraperNext]_vars

GetPageInit == FinderIdle /\ TunerStart /\ ValidatorIdle /\ MainIdle /\ CodiceIdle
    /\ ScrapeIdle /\ GetPageStart /\ FsfIdle

GetPageSpec == GetPageInit /\ [][GetPageNext]_vars

FsfInit == FinderIdle /\ TunerStart /\ ValidatorIdle /\ MainIdle /\ CodiceIdle
    /\ ScraperIdle /\ FsfStart

FsfSpec == FsfInit /\ [][FsfNext]_vars

(***************************************************************************)
(* Claims.                                                                 *)
(***************************************************************************)
\* the validation passes the loop test: is_valid and score >= threshold
Passes(v, threshold) == v.type = "dict" /\ GetIsValid(v) /\ GetScore(v) >= threshold

LastCall == IF calls = <<>> THEN "none" ELSE calls[Len(calls)]

\* The recorded call sequence never reaches the cap, so the cap cuts nothing.
CapNeverBinds == Len(calls) < CallsCap

\* C1: for max_tuning_iterations >= 0 the iteration counter stays within
\* 0..max_tuning_iterations and the returned tuning_iterations never exceeds
\* max_tuning_iterations.
C1_IterationBounded ==
    max_tuning_iterations >= 0 =>
        /\ 0 <= iteration
        /\ iteration <= max_tuning_iterations
        /\ final_result.returned => final_result.tuning_iterations <= max_tuning_iterations

\* a run that used every allowed tuning iteration and returned
C1_Witness ==
    /\ final_result.returned
    /\ max_tuning_iterations >= 2
    /\ final_result.tuning_iterations = max_tuning_iterations

C3_StopsOnSuccess ==
    /\ pc \in {"improve", "scrape"} => ~Passes(validation_result, validation_threshold)
    /\ (final_result.returned /\ final_result.tuning_iterations < max_tuning_iterations) =>
           /\ final_result.is_valid
           /\ final_result.validation_score >= validation_threshold

\* a run that stopped early, after one tuning iteration, on a passing validation
C3_Witness ==
    /\ final_result.returned
    /\ final_result.tuning_iterations = 1
    /\ max_tuning_iterations = 2
    /\ final_result.is_valid
    /\ final_result.validation_score = validation_threshold

ExpectedCall(i) ==
    IF i = 1 THEN "scrape"
    ELSE IF i = 2 THEN "validate"
    ELSE IF i % 3 = 0 THEN "improve"
    ELSE IF i % 3 = 1 THEN "scrape"
    ELSE "validate"

\* C4: the calls are scrape, validate, then repetitions of improve_prompt,
\* scrape, validate; an improve_prompt call directly follows a failed
\* validation, and the function neither returns nor raises between an
\* improve_prompt call and the validation of the rescrape.
C4_CallOrder ==
    /\ \A i \in 1..Len(calls) : calls[i] = ExpectedCall(i)
    /\ LastCall = "improve" => ~Passes(validation_result, validation_threshold)
    /\ (pc \in {"done", "raised"} /\ \E i \in 1..Len(calls) : calls[i] = "improve")
           => LastCall = "validate"

\* a returned run with two full tuning rounds
C4_Witness ==
    /\ pc = "done"
    /\ calls = <<"scrape", "validate", "improve", "scrape", "validate",
                 "improve", "scrape", "validate">>

\* C5 (as claimed): the rescrape that follows improve_prompt is given the
\* prompt the tuner now holds.
C5_RescrapeUsesPrompt ==
    (Len(calls) >= 4 /\ LastCall = "scrape") =>
        /\ "prompt" \in DOMAIN scrape_inputs
        /\ scrape_inputs.prompt = current_prompt

\* "no JSON object can be extracted": no part of the text is a JSON object
NoJsonObject(text) ==
    ~\E i, j \in 1..Len(text) : i < j /\ IsObject(SubSeq(text, i, j))

\* C8: validate_result always returns a dict; when the Gemini call raises,
\* gives no response, or gives a text holding no JSON object, the dict has
\* is_valid = False and validation_score = 0, which fails the loop test.
C8_ValidatorTotal ==
    v_pc = "returned" =>
        /\ v_result.type = "dict"
        /\ (v_response.kind # "text" \/ NoJsonObject(v_response.text)) =>
               /\ v_result.has_is_valid /\ ~v_result.is_valid
               /\ v_result.has_score /\ v_result.validation_score = 0
               /\ \A t \in Thresholds : ~Passes(v_result, t)

\* the answer "[5]": a JSON list, on which the logging line's .get raises
C8_Witness ==
    /\ v_pc = "returned"
    /\ v_response = [kind |-> "text", text |-> <<"[", "5", "]">>]
    /\ v_result = ExceptionDict

\* C9: a failed improvement call leaves current_prompt and tuning_history
\* as they were and returns the unchanged prompt; a successful one appends
\* exactly one history entry and replaces current_prompt.
C9_FailedImproveKeepsPrompt ==
    [][calls' = Append(calls, "improve") =>
         IF llm_outcome' # "text"
         THEN /\ current_prompt' = current_prompt
              /\ tuning_history' = tuning_history
              /\ improve_return' = current_prompt
         ELSE /\ Len(tuning_history') = Len(tuning_history) + 1
              /\ SubSeq(tuning_history', 1, Len(tuning_history)) = tuning_history
              /\ tuning_history'[Len(tuning_history')].old_prompt = current_prompt
              /\ tuning_history'[Len(tuning_history')].new_prompt = current_prompt'
              /\ improve_return' = current_prompt']_vars

\* a failed improvement after a successful one: the improved prompt is kept
C9_Witness ==
    /\ LastCall = "improve"
    /\ llm_outcome = "text_raises"
    /\ Len(tuning_history) = 1
    /\ current_prompt = <<"b">>
    /\ improve_return = <<"b">>

RECURSIVE Flatten(_)
Flatten(ss) == IF ss = <<>> THEN <<>> ELSE Head(ss) \o Flatten(Tail(ss))

\* the rows a batch must yield for its companies, in order
RowsMatch(rows, batch) ==
    \A j \in 1..Len(rows) :
        /\ rows[j].company_name = batch[j]
        /\ ScrapeRaises(batch[j]) => rows[j] = ErrorRow(batch[j], DefaultSourceType)
        /\ ~ScrapeRaises(batch[j]) => ~rows[j].error

\* C6: process_companies_batch yields one row per company of the batch, in
\* batch order; a company whose search raises gets the error record (url
\* None, year None) and the loop goes on with the next company.
C6_BatchResults ==
    /\ \A w \in Threads :
         worker[w].batch # 0 =>
             /\ Len(worker[w].results) = worker[w].i - 1
             /\ RowsMatch(worker[w].results, batches[worker[w].batch])
    /\ \A k \in 1..Len(futures) :
         futures[k].done =>
             /\ Len(futures[k].result) = Len(batches[k])
             /\ RowsMatch(futures[k].result, batches[k])

\* a finished batch whose first company raised and whose second did not
C6_Witness ==
    \E k \in 1..Len(futures) :
        /\ futures[k].done
        /\ Len(futures[k].result) = 2
        /\ futures[k].result[1].error
        /\ ~futures[k].result[2].error

\* C7: the batches partition the input list in order, each of size at most
\* batch_size; all_results follows the input order whatever the order in
\* which the batches finish, and holds one record per company at the end.
C7_ResultsInInputOrder ==
    main_pc # "idle" =>
        /\ Flatten(batches) = companies
        /\ \A k \in 1..Len(batches) : Len(batches[k]) \in 1..batch_size
        /\ Len(all_results) <= Len(companies)
        /\ \A i \in 1..Len(all_results) : all_results[i].company_name = companies[i]
        /\ main_pc = "done" => Len(all_results) = Len(companies)

\* the second batch finished before the first, and main() is done
C7_Witness ==
    /\ main_pc = "done"
    /\ Len(finish_order) >= 2
    /\ finish_order[1] = 2
    /\ finish_order[2] = 1
    /\ Len(companies) = 3
    /\ companies[1] # companies[3]

\* C10: process_company starts at most max_iterations cycles; Iterations of
\* the output record is within 0..max_iterations and at least 1 when
\* max_iterations >= 1.
C10_IterationsBounded ==
    /\ actual_iterations \in 0..max_iterations
    /\ search_calls <= max_iterations
    /\ output_data.returned =>
           /\ output_data.Iterations \in 0..max_iterations
           /\ max_iterations >= 1 => output_data.Iterations >= 1

\* a record returned after every allowed cycle was used
C10_Witness ==
    /\ output_data.returned
    /\ max_iterations >= 2
    /\ output_data.Iterations = max_iterations
    /\ search_calls = max_iterations


(***************************************************************************)
(* C11: in the output record of process_company, ValidationStatus is       *)
(* 'Validated' only if the validator answered validated = true for exactly *)
(* the FinalURL and FinalYear of that record, and then both are non-null.  *)
(***************************************************************************)
C11_ValidatedMeansValidated ==
    (output_data.returned /\ output_data.ValidationStatus = "Validated")
        => /\ validated_pair = <<output_data.FinalURL, output_data.FinalYear>>
           /\ output_data.FinalURL # None
           /\ output_data.FinalYear # None

\* a record validated in a later cycle, after an earlier result was rejected
C11_Witness ==
    /\ output_data.returned
    /\ output_data.ValidationStatus = "Validated"
    /\ output_data.Iterations >= 2
    /\ search_calls >= 2

(***************************************************************************)
(* C12: the heuristic scrape_financial_sources, in both scraper modules,   *)
(* returns either (None, None, None, 'BASSA') or a tuple whose url and     *)
(* year are both non-null with confidence 'ALTA' or 'MEDIA': the url is    *)
(* None iff the year is None iff the confidence is 'BASSA'.                *)
(***************************************************************************)
C12_ScrapeTupleShape ==
    sc_pc = "returned" =>
        \/ sc_return = ScrapeTuple(NoUrl, None, NoDesc, "BASSA")
        \/ /\ sc_return.url # NoUrl
           /\ sc_return.year # None
           /\ sc_return.confidence \in {"ALTA", "MEDIA"}

\* the codice scraper keeps a report of the company site although an EDGAR
\* filing was found, on a page that also holds a link without a year
C12_Witness ==
    /\ sc_pc = "returned"
    /\ sc_module = "codice_scraping"
    /\ \E i \in 1..Len(sc_page.links) : sc_page.links[i].year = None
    /\ sc_page.sec10k # <<>>
    /\ sc_return.url = PdfUrl
    /\ sc_return.confidence = "ALTA"

(***************************************************************************)
(* C13: find_financial_source of financial_source_finder.py finds the      *)
(* source with automatic tuning: the scraping result is validated and,     *)
(* while validation fails, the prompt is improved and the scrape repeated, *)
(* up to max_tuning_iterations times, before the final result is returned. *)
(* So a call that returns has issued scrape, validate and then at most     *)
(* max_tuning_iterations rounds of improve, scrape, validate.              *)
(***************************************************************************)
C13_TunesBeforeReturn ==
    fsf_return.returned =>
        /\ Len(fsf_calls) >= 2
        /\ \A i \in 1..Len(fsf_calls) : fsf_calls[i] = ExpectedCall(i)
        /\ Len(fsf_calls) % 3 = 2
        /\ (Len(fsf_calls) - 2) \div 3 <= fsf_max_tuning_iterations

\* how often a call occurs in a call sequence
CountCalls(seq, name) == Cardinality({i \in 1..Len(seq) : seq[i] = name})

(***************************************************************************)
(* C14: when find_financial_source (main.py) returns with                  *)
(* tuning_iterations = k, exactly k+1 scrape calls, k+1 validate calls and *)
(* k improve_prompt calls were made; a first validation that passes the    *)
(* threshold gives k = 0 and no improve_prompt call.                       *)
(***************************************************************************)
C14_CallCounts ==
    /\ final_result.returned =>
          LET k == final_result.tuning_iterations
          IN  /\ CountCalls(calls, "scrape") = k + 1
              /\ CountCalls(calls, "validate") = k + 1
              /\ CountCalls(calls, "improve") = k
    /\ (Len(calls) = 2 /\ Passes(validation_result, validation_threshold))
          => /\ pc \in {"check", "done"}
             /\ iteration = 0
             /\ final_result.returned => final_result.tuning_iterations = 0

\* a run returned after two tuning rounds
C14_Witness ==
    /\ final_result.returned
    /\ final_result.tuning_iterations = 2
    /\ CountCalls(calls, "improve") = 2
    /\ CountCalls(calls, "scrape") = 3

\* a run returned right after a first validation that passed
C14_WitnessFirstPass ==
    /\ final_result.returned
    /\ Len(calls) = 2
    /\ Passes(validation_result, validation_threshold)
    /\ max_tuning_iterations >= 1

(***************************************************************************)
(* C15: the final result of find_financial_source (main.py) is internally  *)
(* consistent: its url, year, source_description and confidence are those  *)
(* of the most recent scrape, and its validation_score, is_valid and       *)
(* feedback come from the validation of that same scrape, never from the   *)
(* validation of an earlier scrape.                                        *)
(***************************************************************************)
C15_FinalResultConsistent ==
    final_result.returned =>
        /\ final_result.url = scraping_result.url
        /\ final_result.year = scraping_result.year
        /\ final_result.source_description = scraping_result.source_description
        /\ final_result.confidence = scraping_result.confidence
        /\ final_result.validation_score = GetScore(validation_result)
        /\ final_result.is_valid = GetIsValid(validation_result)
        /\ final_result.feedback = GetFeedback(validation_result)
        /\ LastCall = "validate"
        /\ validate_inputs = scraping_result

\* a run returned with the report found by a rescrape and accepted by the
\* validation that followed it
C15_Witness ==
    /\ final_result.returned
    /\ final_result.tuning_iterations >= 1
    /\ final_result.url = PdfUrl
    /\ final_result.is_valid
    /\ final_result.validation_score >= validation_threshold

(***************************************************************************)
(* C16: WebScraperModule.get_page (claude_challenge_code.py) makes at most *)
(* 5 HTTP attempts per call and returns the HTML content of the page, or   *)
(* None if the page failed to load, both when the server answers with a    *)
(* non-200 status and when every attempt ends in a request exception.      *)
(***************************************************************************)
C16_GetPageReturnsNone ==
    /\ Len(gp_attempts) <= tries
    /\ gp_pc # "raised"
    /\ gp_pc = "returned" =>
          LET last == gp_attempts[Len(gp_attempts)]
          IN  gp_return = IF last.kind = "response" /\ last.status_code = 200
                          THEN last.text
                          ELSE None

=============================================================================
